---- MODULE Spec2Model ----
(***************************************************************************)
(* Model of the portfolio builder: the heuristic resume parser             *)
(* (utils/pdfParser.js: parseResumeText and its helpers), the PDF text     *)
(* extraction around it (extractResumeDataFromPdf) and the parse attempts  *)
(* of the React component (App.js: loadInitial, onFileChange).             *)
(*                                                                         *)
(* JavaScript strings are TLA+ strings; TLC evaluates Len, SubSeq, Tail    *)
(* and \o on them, and SubSeq(s, i, i) is the i-th character.  Indices are *)
(* 1-based here and 0-based in the source.  Module strings are ASCII, so   *)
(* the three non-ASCII characters the source's patterns name are written   *)
(* with ASCII stand-ins that occur in no other role (see BULLET, ENDASH,   *)
(* EMDASH): none of them is a word character, white space, or a member of  *)
(* any other character class of the source.                                *)
(***************************************************************************)
EXTENDS Integers, Sequences, FiniteSets, TLC

\* ------------------------------------------------------------------------
\* Bounds of the model
\* ------------------------------------------------------------------------

\* Longest generated document body, in lines.
MaxLines == 3

\* ------------------------------------------------------------------------
\* Characters and character classes
\* ------------------------------------------------------------------------

BULLET == "*"   \* U+2022, the bullet of /[-•]/ and /[\n•,;]+/
ENDASH == "~"   \* U+2013, the en dash
EMDASH == "^"   \* U+2014, the em dash

UpperChars == "ABCDEFGHIJKLMNOPQRSTUVWXYZ"
LowerChars == "abcdefghijklmnopqrstuvwxyz"
DigitChars == "0123456789"

Ch(s, i) == SubSeq(s, i, i)
CharsOf(s) == {Ch(s, i) : i \in 1..Len(s)}

UpperSet == CharsOf(UpperChars)
LowerSet == CharsOf(LowerChars)
DigitSet == CharsOf(DigitChars)
LetterSet == UpperSet \cup LowerSet
\* \w
WordSet == LetterSet \cup DigitSet \cup {"_"}
\* \s, restricted to the white space of the input alphabet
SpaceSet == {" ", "\t", "\n", "\r"}

LowerTbl == [c \in UpperSet |-> Ch(LowerChars, CHOOSE i \in 1..26 : Ch(UpperChars, i) = c)]
UpperTbl == [c \in LowerSet |-> Ch(UpperChars, CHOOSE i \in 1..26 : Ch(LowerChars, i) = c)]

LowerCh(c) == IF c \in UpperSet THEN LowerTbl[c] ELSE c
UpperCh(c) == IF c \in LowerSet THEN UpperTbl[c] ELSE c

\* the concatenation of a sequence of strings (halving keeps the evaluation
\* shallow)
RECURSIVE ConcatRange(_, _, _)
ConcatRange(xs, lo, hi) ==
    IF lo > hi THEN ""
    ELSE IF lo = hi THEN xs[lo]
    ELSE LET mid == (lo + hi) \div 2
         IN ConcatRange(xs, lo, mid) \o ConcatRange(xs, mid + 1, hi)
Concat(xs) == ConcatRange(xs, 1, Len(xs))

\* String.prototype.toLowerCase
toLowerCase(s) == Concat([i \in 1..Len(s) |-> LowerCh(Ch(s, i))])

\* ------------------------------------------------------------------------
\* String primitives (String.prototype.* and the regular-expression idioms)
\* ------------------------------------------------------------------------

Min(a, b) == IF a < b THEN a ELSE b
Max(a, b) == IF a > b THEN a ELSE b

\* s.substring from position i (1-based) to the end
From(s, i) == SubSeq(s, i, Len(s))

\* p occurs in s at position i
MatchAt(s, i, p) == i >= 1 /\ i + Len(p) - 1 <= Len(s) /\ SubSeq(s, i, i + Len(p) - 1) = p

startsWith(s, p) == MatchAt(s, 1, p)
includes(s, p) == \E i \in 1..(Len(s) - Len(p) + 1) : MatchAt(s, i, p)

\* /(k1|k2|...)/.test(s) for literal alternatives, and its /i form
TestAny(s, ks) == \E k \in ks : includes(s, k)
TestAnyI(s, ks) == LET t == toLowerCase(s) IN \E k \in ks : includes(t, k)

\* whether position i of s (1..Len(s)) holds a word character
IsWordAt(s, i) == i >= 1 /\ i <= Len(s) /\ Ch(s, i) \in WordSet
\* \b between positions i-1 and i
BoundaryAt(s, i) == IsWordAt(s, i - 1) # IsWordAt(s, i)

\* /^(k1|k2|...)\b/i.test(s)
TestPrefixWordI(s, ks) ==
    LET t == toLowerCase(s)
    IN \E k \in ks : startsWith(t, k) /\ BoundaryAt(t, Len(k) + 1)

\* /^(k1|k2|...)$/i.test(s)
TestWholeI(s, ks) == toLowerCase(s) \in ks

\* String.prototype.trim
trim(s) ==
    LET ink == {i \in 1..Len(s) : Ch(s, i) \notin SpaceSet}
    IN IF ink = {} THEN ""
       ELSE SubSeq(s, CHOOSE a \in ink : \A b \in ink : a <= b,
                      CHOOSE a \in ink : \A b \in ink : a >= b)

\* s.split(c) for a one-character separator out of seps: the pieces between
\* separators, empty pieces included ("".split gives one empty piece).
RECURSIVE SplitFrom(_, _, _)
SplitFrom(s, seps, start) ==
    LET at == {k \in start..Len(s) : Ch(s, k) \in seps}
    IN IF at = {} THEN <<SubSeq(s, start, Len(s))>>
       ELSE LET k == CHOOSE a \in at : \A b \in at : a <= b
            IN <<SubSeq(s, start, k - 1)>> \o SplitFrom(s, seps, k + 1)
split(s, seps) == SplitFrom(s, seps, 1)

\* s.split(/[seps]+/): a run of separators separates once, so the empty
\* pieces between adjacent separators do not appear; a leading or trailing
\* separator still gives an empty first or last piece.
DropInner(ps) ==
    LET keep == {i \in 1..Len(ps) : ps[i] # "" \/ i = 1 \/ i = Len(ps)}
        RECURSIVE Pick(_)
        Pick(i) == IF i > Len(ps) THEN <<>>
                   ELSE IF i \in keep THEN <<ps[i]>> \o Pick(i + 1) ELSE Pick(i + 1)
    IN Pick(1)
splitRuns(s, seps) == DropInner(split(s, seps))

\* xs.join(sep)
join(xs, sep) == Concat([i \in 1..Len(xs) |-> IF i = 1 THEN xs[i] ELSE sep \o xs[i]])

\* xs.filter(Boolean) on strings
NonEmpty(x) == x # ""
FilterNonEmpty(xs) == SelectSeq(xs, NonEmpty)

\* xs.map((s) => s.trim()).filter(Boolean)
TrimAll(xs) == FilterNonEmpty([i \in 1..Len(xs) |-> trim(xs[i])])

\* xs.slice(a, b) with 0-based a (inclusive) and b (exclusive), as in the source
slice(xs, a, b) == SubSeq(xs, a + 1, Min(b, Len(xs)))

\* a faulty variant of ArrayFromSet: Array.from(xs), without the Set
ArrayKeepAll(xs) == xs
\* Array.from(new Set(xs)): the first occurrence of each element, in order
RECURSIVE DedupFrom(_, _)
DedupFrom(xs, seen) ==
    IF xs = <<>> THEN <<>>
    ELSE IF Head(xs) \in seen THEN DedupFrom(Tail(xs), seen)
    ELSE <<Head(xs)>> \o DedupFrom(Tail(xs), seen \cup {Head(xs)})
ArrayFromSet(xs) == DedupFrom(xs, {})

\* ------------------------------------------------------------------------
\* cap (pdfParser.js)
\* ------------------------------------------------------------------------

\* s.replace(/\s+/g, ' '): each run of white space becomes one space
IsSpaceAt(s, i) == i >= 1 /\ i <= Len(s) /\ Ch(s, i) \in SpaceSet
CollapseSpaces(s) ==
    Concat([i \in 1..Len(s) |->
              IF ~IsSpaceAt(s, i) THEN Ch(s, i)
              ELSE IF IsSpaceAt(s, i - 1) THEN "" ELSE " "])

\* s.replace(/\b\w/g, (m) => m.toUpperCase()): the first character of every
\* word is upper-cased, every other character is kept as it is
UpperWordStarts(s) ==
    Concat([i \in 1..Len(s) |->
              IF IsWordAt(s, i) /\ ~IsWordAt(s, i - 1) THEN UpperCh(Ch(s, i)) ELSE Ch(s, i)])

cap(s) == UpperWordStarts(trim(CollapseSpaces(s)))

\* ------------------------------------------------------------------------
\* Sequence helpers
\* ------------------------------------------------------------------------

\* xs.flatMap: the concatenation of a sequence of sequences
RECURSIVE Flatten(_)
Flatten(xss) == IF xss = <<>> THEN <<>> ELSE Head(xss) \o Flatten(Tail(xss))

\* the least element of a non-empty set of integers
MinOf(S) == CHOOSE x \in S : \A y \in S : x <= y

\* ------------------------------------------------------------------------
\* findSection (pdfParser.js)
\* ------------------------------------------------------------------------

\* The header patterns the classifiers pass to findSection, each an
\* unanchored, case-insensitive alternation of literals.
SkillsHeader == {"skills", "technical skills"}
EducationHeader == {"education", "academics", "academic background"}
ExperienceHeader == {"experience", "work experience", "professional experience"}
ProjectsHeader == {"projects", "personal projects"}
SummaryHeader == {"summary", "objective", "about"}

\* The alternatives of the pattern that bounds a section.
BoundaryWords ==
    {"skills", "technical skills", "experience", "work experience",
     "professional experience", "education", "academics", "projects",
     "personal projects", "summary", "objective", "about", "certifications",
     "awards"}

\* a faulty variant of IsBoundaryLine: the keyword as a prefix, without \b
StartsWithKeyword(l) ==
    LET t == toLowerCase(l) IN \E k \in BoundaryWords : startsWith(t, k)
\* the "header-like" test that ends a section
IsBoundaryLine(l) == TestPrefixWordI(l, BoundaryWords)

\* a faulty variant of SectionStart: without the return of line 284, a
\* missing header starts the section at the first line
SectionStartUnchecked(ls, hdr) ==
    LET idx == {i \in 1..Len(ls) : TestAnyI(ls[i], hdr)}
    IN IF idx = {} THEN Min(1, Len(ls)) ELSE MinOf(idx)
\* indexes[0] + 1: the first line the header pattern matches, 0 when none does
SectionStart(ls, hdr) ==
    LET idx == {i \in 1..Len(ls) : TestAnyI(ls[i], hdr)}
    IN IF idx = {} THEN 0 ELSE MinOf(idx)

\* end + 1: the first header-like line after the start, Len + 1 when none is
SectionEnd(ls, start) ==
    LET later == {i \in (start + 1)..Len(ls) : IsBoundaryLine(ls[i])}
    IN IF later = {} THEN Len(ls) + 1 ELSE MinOf(later)

findSection(text, hdr) ==
    LET ls == split(text, {"\n"})
        start == SectionStart(ls, hdr)
    IN IF start = 0 THEN ""
       ELSE trim(join(SubSeq(ls, start, SectionEnd(ls, start) - 1), "\n"))

\* ------------------------------------------------------------------------
\* extractSkills (pdfParser.js)
\* ------------------------------------------------------------------------

\* a faulty variant of AfterColon: the label is kept
KeepLabel(r) == r
\* r.includes(':') ? r.split(':').slice(1).join(':') : r
AfterColon(r) ==
    IF includes(r, ":")
    THEN LET ps == split(r, {":"}) IN join(SubSeq(ps, 2, Len(ps)), ":")
    ELSE r

\* expanded.map(cap): the skills before deduplication
SkillsExpanded(text) ==
    LET section == findSection(text, SkillsHeader)
        raw == TrimAll(splitRuns(section, {"\n", BULLET, ",", ";"}))
        NotHeader(r) == ~TestWholeI(r, {"skills", "technical skills"})
        filtered == SelectSeq(raw, NotHeader)
        expanded == Flatten([i \in 1..Len(filtered) |->
                        TrimAll(splitRuns(AfterColon(filtered[i]), {",", ";", BULLET}))])
    IN IF section = "" THEN <<>> ELSE [i \in 1..Len(expanded) |-> cap(expanded[i])]

extractSkills(text) == ArrayFromSet(SkillsExpanded(text))

\* ------------------------------------------------------------------------
\* extractEducation (pdfParser.js)
\* ------------------------------------------------------------------------

\* most separator characters between the two years of a period (line 170)
EduPeriodGap == 5
\* the same in the experience classifier (line 218)
ExpPeriodGap == 12

\* a faulty variant of TestDegree: the full words only, no abbreviation
TestDegreeWordsOnly(l) == TestAnyI(l, {"bachelor", "master", "diploma"})
\* /(\bB\.?Tech|B\.?E|B\.?Sc|M\.?Tech|M\.?E|M\.?Sc|Bachelor|Master|Diploma|Ph\.?D)/i
TestDegree(l) ==
    LET t == toLowerCase(l)
    IN \/ \E i \in 1..Len(t) :
            BoundaryAt(t, i) /\ (MatchAt(t, i, "btech") \/ MatchAt(t, i, "b.tech"))
       \/ TestAny(t, {"be", "b.e", "bsc", "b.sc", "mtech", "m.tech", "me", "m.e",
                      "msc", "m.sc", "bachelor", "master", "diploma", "phd", "ph.d"})

\* 20\d{2} at position i
YearAt(s, i) ==
    /\ MatchAt(s, i, "20")
    /\ i + 3 <= Len(s)
    /\ Ch(s, i + 2) \in DigitSet
    /\ Ch(s, i + 3) \in DigitSet

\* /\b(20\d{2}).{0,gap}(\b20\d{2}\b|present|current)/i on one line
TestPeriod(l, gap) ==
    LET t == toLowerCase(l)
    IN \E i \in 1..Len(t) :
         /\ BoundaryAt(t, i)
         /\ YearAt(t, i)
         /\ \E k \in 0..gap :
              LET j == i + 4 + k
              IN \/ BoundaryAt(t, j) /\ YearAt(t, j) /\ BoundaryAt(t, j + 4)
                 \/ MatchAt(t, j, "present")
                 \/ MatchAt(t, j, "current")

NewEdu == [degree |-> "", institution |-> "", period |-> "", details |-> ""]

\* if (!current) current = {...}: the open entry, opened if there is none
OpenOr(cur, fresh) == IF cur = <<>> THEN fresh ELSE cur[1]

\* One turn of the forEach of extractEducation: st = [entries, current], the
\* open entry being <<>> (null) or <<entry>>.
EduLine(st, l) ==
    IF startsWith(toLowerCase(l), "education") \/ startsWith(toLowerCase(l), "academics")
    THEN st
    ELSE IF TestDegree(l)
    THEN [entries |-> st.entries \o st.current,
          current |-> <<[NewEdu EXCEPT !.degree = l]>>]
    ELSE LET c == OpenOr(st.current, NewEdu)
         IN IF TestAnyI(l, {"university", "college", "institute", "school"})
            THEN [st EXCEPT !.current = <<[c EXCEPT !.institution =
                        IF c.institution # "" THEN c.institution \o " " \o l ELSE l]>>]
            ELSE IF TestPeriod(l, EduPeriodGap)
            THEN [st EXCEPT !.current = <<[c EXCEPT !.period = l]>>]
            ELSE [st EXCEPT !.current = <<[c EXCEPT !.details =
                        (IF c.details # "" THEN c.details \o " " ELSE "") \o l]>>]

RECURSIVE EduFold(_, _)
EduFold(st, ls) == IF ls = <<>> THEN st ELSE EduFold(EduLine(st, Head(ls)), Tail(ls))

extractEducation(text) ==
    LET section == findSection(text, EducationHeader)
        ls == TrimAll(split(section, {"\n"}))
        st == EduFold([entries |-> <<>>, current |-> <<>>], ls)
        entries == st.entries \o st.current
    IN IF section = "" THEN <<>>
       ELSE [i \in 1..Len(entries) |->
               [degree |-> IF entries[i].degree # "" THEN entries[i].degree
                           ELSE entries[i].details,
                institution |-> entries[i].institution,
                period |-> entries[i].period,
                details |-> entries[i].details]]

\* ------------------------------------------------------------------------
\* extractExperience (pdfParser.js)
\* ------------------------------------------------------------------------

\* lines shorter than this are bullets even without a marker (line 221)
BulletMaxLen == 140

RoleWords == {"intern", "engineer", "developer", "manager", "lead"}
RolePartWords == RoleWords \cup {"analyst", "consultant"}

\* /[–-]/.test(l) && /at|@| - | – |—/.test(l) || /intern|...|lead/i.test(l)
StartsRole(l) ==
    \/ /\ TestAny(l, {ENDASH, "-"})
       /\ TestAny(l, {"at", "@", " - ", " " \o ENDASH \o " ", EMDASH})
    \/ TestAnyI(l, RoleWords)

\* l.split(/[-–—]| at | @ /i): at each position the first alternative that
\* matches separates
\* (t is l in lower case)
RoleSepLen(l, t, i) ==
    IF Ch(l, i) \in {"-", ENDASH, EMDASH} THEN 1
    ELSE IF MatchAt(t, i, " at ") THEN 4
    ELSE IF MatchAt(l, i, " @ ") THEN 3
    ELSE 0
RECURSIVE SplitRoleFrom(_, _, _)
SplitRoleFrom(l, t, start) ==
    LET at == {k \in start..Len(l) : RoleSepLen(l, t, k) > 0}
    IN IF at = {} THEN <<SubSeq(l, start, Len(l))>>
       ELSE LET k == CHOOSE a \in at : \A b \in at : a <= b
            IN <<SubSeq(l, start, k - 1)>> \o SplitRoleFrom(l, t, k + RoleSepLen(l, t, k))
SplitRole(l) == SplitRoleFrom(l, toLowerCase(l), 1)

\* xs.findIndex(test) + 1 for the role test of line 207: 0 when none matches
RoleIdx(parts) ==
    LET hit == {i \in 1..Len(parts) : TestAnyI(parts[i], RolePartWords)}
    IN IF hit = {} THEN 0 ELSE MinOf(hit)

\* parts.filter((_, i) => i !== roleIdx)
Without(parts, k) == SubSeq(parts, 1, k - 1) \o SubSeq(parts, k + 1, Len(parts))

\* l.replace(/^[-•]\s?/, '').trim()
StripMarker(l) ==
    trim(IF l # "" /\ Ch(l, 1) \in {"-", BULLET}
         THEN (IF Len(l) >= 2 /\ Ch(l, 2) \in SpaceSet THEN From(l, 3) ELSE From(l, 2))
         ELSE l)

\* a faulty variant of PushBullet: unshift instead of push
PushBulletFirst(bullets, b) == <<b>> \o bullets
\* current.bullets.push(b)
PushBullet(bullets, b) == Append(bullets, b)

\* An entry under construction.  openedAt, bulletAt and periodAt are history
\* fields of the model: the index, among the section's lines, of the line that
\* created the entry, of the line each bullet was taken from, and of the
\* lines that set the period.
NewExp(k) == [company |-> "", role |-> "", period |-> "", bullets |-> <<>>,
              openedAt |-> k, bulletAt |-> <<>>, periodAt |-> <<>>]

\* the entry a new-role line l (the k-th of the section) starts
RoleEntry(l, k) ==
    LET parts == TrimAll(SplitRole(l))
        r == RoleIdx(parts)
    IN IF Len(parts) >= 2
       THEN IF r > 0
            THEN [NewExp(k) EXCEPT !.role = parts[r],
                                   !.company = join(Without(parts, r), " - ")]
            ELSE [NewExp(k) EXCEPT !.role = parts[1],
                                   !.company = join(Tail(parts), " - ")]
       ELSE [NewExp(k) EXCEPT !.role = l]

\* One turn of the forEach of extractExperience on the k-th line l.
ExpLine(st, l, k) ==
    IF TestWholeI(l, ExperienceHeader) THEN st
    ELSE IF StartsRole(l)
    THEN [entries |-> st.entries \o st.current, current |-> <<RoleEntry(l, k)>>]
    ELSE LET c == OpenOr(st.current, NewExp(k))
         IN IF TestPeriod(l, ExpPeriodGap)
            THEN [st EXCEPT !.current = <<[c EXCEPT !.period = l,
                                                     !.periodAt = Append(c.periodAt, k)]>>]
            ELSE IF startsWith(l, "-") \/ startsWith(l, BULLET) \/ Len(l) < BulletMaxLen
            THEN [st EXCEPT !.current = <<[c EXCEPT
                        !.bullets = PushBullet(c.bullets, StripMarker(l)),
                        !.bulletAt = Append(c.bulletAt, k)]>>]
            ELSE [st EXCEPT !.current = <<[c EXCEPT
                        !.bullets = PushBullet(c.bullets, l),
                        !.bulletAt = Append(c.bulletAt, k)]>>]

RECURSIVE ExpFold(_, _, _)
ExpFold(st, ls, k) ==
    IF k > Len(ls) THEN st ELSE ExpFold(ExpLine(st, ls[k], k), ls, k + 1)

\* the lines extractExperience walks over
ExperienceLines(text) == TrimAll(split(findSection(text, ExperienceHeader), {"\n"}))

\* the entries with their history fields
ExperienceTrace(text) ==
    LET st == ExpFold([entries |-> <<>>, current |-> <<>>], ExperienceLines(text), 1)
    IN IF findSection(text, ExperienceHeader) = "" THEN <<>>
       ELSE st.entries \o st.current

\* the entries as the source holds them
ExperienceEntries(es) ==
    [i \in 1..Len(es) |->
       [company |-> es[i].company, role |-> es[i].role,
        period |-> es[i].period, bullets |-> es[i].bullets]]

extractExperience(text) == ExperienceEntries(ExperienceTrace(text))

\* ------------------------------------------------------------------------
\* extractProjects (pdfParser.js)
\* ------------------------------------------------------------------------

\* the end of the longest run of characters of cs that starts at i (i - 1
\* when the character at i is not in cs)
RunEnd(s, i, cs) ==
    LET out == {k \in i..Len(s) : Ch(s, k) \notin cs}
    IN IF out = {} THEN Max(Len(s), i - 1) ELSE (CHOOSE a \in out : \A b \in out : a <= b) - 1

\* the end of the longest run of [^\s)] that starts at i
UrlEnd(s, i) ==
    LET out == {k \in i..Len(s) : Ch(s, k) \in (SpaceSet \cup {")"})}
    IN IF out = {} THEN Max(Len(s), i - 1) ELSE (CHOOSE a \in out : \A b \in out : a <= b) - 1

\* whether prefix[^\s)]+ matches at i, for literal prefixes; t is s, in lower
\* case under the /i flag; wb: a leading \b
LinkAt(s, t, i, prefixes, wb) ==
    /\ \E p \in prefixes : MatchAt(t, i, p) /\ UrlEnd(s, i + Len(p)) >= i + Len(p)
    /\ wb => BoundaryAt(s, i)

LinkEnd(s, t, i, prefixes) ==
    LET p == CHOOSE q \in prefixes : MatchAt(t, i, q) /\ UrlEnd(s, i + Len(q)) >= i + Len(q)
    IN UrlEnd(s, i + Len(p))

\* s.match(/prefix[^\s)]+/g) || []: every match, left to right, not overlapping
RECURSIVE MatchAllFrom(_, _, _, _, _)
MatchAllFrom(s, t, i, prefixes, wb) ==
    LET at == {k \in i..Len(s) : LinkAt(s, t, k, prefixes, wb)}
    IN IF at = {} THEN <<>>
       ELSE LET k == CHOOSE a \in at : \A b \in at : a <= b
                e == LinkEnd(s, t, k, prefixes)
            IN <<SubSeq(s, k, e)>> \o MatchAllFrom(s, t, e + 1, prefixes, wb)
\* ci: the /i flag
MatchAll(s, prefixes, ci, wb) ==
    MatchAllFrom(s, IF ci THEN toLowerCase(s) ELSE s, 1, prefixes, wb)

HttpPrefixes == {"http://", "https://"}

\* /^[A-Z][A-Za-z0-9 ._-]{2,}$/
TestProjectTitle(l) ==
    /\ Len(l) >= 3
    /\ Ch(l, 1) \in UpperSet
    /\ \A i \in 2..Len(l) : Ch(l, i) \in (LetterSet \cup DigitSet \cup {" ", ".", "_", "-"})

NewProject == [name |-> "", description |-> "", tech |-> <<>>, link |-> "",
               techSeen |-> <<>>]

\* l.split(/:|-/).slice(1).join(':').split(/[,;•]+/).map(trim).filter(Boolean).map(cap)
TechParts(l) ==
    LET ps == split(l, {":", "-"})
        rest == join(SubSeq(ps, 2, Len(ps)), ":")
        items == TrimAll(splitRuns(rest, {",", ";", BULLET}))
    IN [i \in 1..Len(items) |-> cap(items[i])]

\* (l.match(/https?:\/\/[^\s)]+/) || [l])[0]
LinkOf(l) ==
    LET ms == MatchAll(l, HttpPrefixes, FALSE, FALSE)
    IN IF ms = <<>> THEN l ELSE ms[1]

\* One turn of the forEach of extractProjects.  techSeen is a history field
\* of the model: every capitalised item of the entry's tech lines, in order.
ProjLine(st, l) ==
    IF TestWholeI(l, ProjectsHeader) THEN st
    ELSE IF startsWith(l, "-") \/ startsWith(l, BULLET) \/ TestProjectTitle(l)
    THEN [entries |-> st.entries \o st.current,
          current |-> <<[NewProject EXCEPT !.name = StripMarker(l)]>>]
    ELSE LET c == OpenOr(st.current, NewProject)
         IN IF TestAnyI(l, {"tech", "stack", "tools"})
            THEN [st EXCEPT !.current = <<[c EXCEPT
                        !.tech = ArrayFromSet(c.tech \o TechParts(l)),
                        !.techSeen = c.techSeen \o TechParts(l)]>>]
            ELSE IF TestAnyI(l, {"http://", "https://", "github.com", "demo", "live"})
            THEN [st EXCEPT !.current = <<[c EXCEPT !.link = LinkOf(l)]>>]
            ELSE [st EXCEPT !.current = <<[c EXCEPT !.description =
                        IF c.description # "" THEN c.description \o " " \o l ELSE l]>>]

RECURSIVE ProjFold(_, _)
ProjFold(st, ls) == IF ls = <<>> THEN st ELSE ProjFold(ProjLine(st, Head(ls)), Tail(ls))

\* the entries with their history field
ProjectsTrace(text) ==
    LET section == findSection(text, ProjectsHeader)
        st == ProjFold([entries |-> <<>>, current |-> <<>>],
                       TrimAll(split(section, {"\n"})))
    IN IF section = "" THEN <<>> ELSE st.entries \o st.current

\* the entries as the source holds them
ProjectEntries(es) ==
    [i \in 1..Len(es) |->
       [name |-> es[i].name, description |-> es[i].description,
        tech |-> es[i].tech, link |-> es[i].link]]

extractProjects(text) == ProjectEntries(ProjectsTrace(text))

\* ------------------------------------------------------------------------
\* extractSummary (pdfParser.js)
\* ------------------------------------------------------------------------

\* section.replace(/^(summary|objective|about)\s*:?/i, ''): the header word at
\* the very start, the white space after it (line breaks included) and one
\* colon are removed
StripSummaryHeader(section) ==
    LET t == toLowerCase(section)
        ws == {w \in SummaryHeader : startsWith(t, w)}
    IN IF ws = {} THEN section
       ELSE LET w == CHOOSE x \in ws : TRUE
                e == RunEnd(section, Len(w) + 1, SpaceSet)
            IN IF MatchAt(section, e + 1, ":") THEN From(section, e + 2)
               ELSE From(section, e + 1)

\* /[.!]$/
EndsSentence(l) == l # "" /\ Ch(l, Len(l)) \in {".", "!"}

\* lines.findIndex((l) => l.includes(name)), 0-based, -1 when none
FindIndexIncludes(ls, name) ==
    LET hit == {i \in 1..Len(ls) : includes(ls[i], name)}
    IN IF hit = {} THEN -1 ELSE MinOf(hit) - 1

\* the fallback of extractSummary (lines 271-274)
SummaryFallback(text, name) ==
    LET ls == TrimAll(split(text, {"\n"}))
        startIdx == Max(0, FindIndexIncludes(ls, name))
        cand == SelectSeq(slice(ls, startIdx + 1, startIdx + 5), EndsSentence)
    IN join(slice(cand, 0, 2), " ")

extractSummary(text, name) ==
    LET section == findSection(text, SummaryHeader)
    IN IF section # ""
       THEN join(slice(split(trim(StripSummaryHeader(section)), {"\n"}), 0, 3), " ")
       ELSE SummaryFallback(text, name)

\* ------------------------------------------------------------------------
\* guessNameFromText and the contact patterns of parseResumeText
\* ------------------------------------------------------------------------

\* s.split(' ').length
WordCount(s) == Len(split(s, {" "}))

\* l.replace(/\s{2,}/g, ' '): each run of two or more white-space characters
\* becomes one space
CollapseRuns(s) ==
    Concat([i \in 1..Len(s) |->
              IF ~IsSpaceAt(s, i) THEN Ch(s, i)
              ELSE IF IsSpaceAt(s, i - 1) THEN ""
              ELSE IF IsSpaceAt(s, i + 1) THEN " "
              ELSE Ch(s, i)])

\* /^[A-Za-z .'-]+$/
TestNameChars(l) ==
    l # "" /\ \A i \in 1..Len(l) : Ch(l, i) \in (LetterSet \cup {" ", ".", "'", "-"})

GuessSkipWords == {"email", "contact", "skills", "education", "experience",
                   "projects", "summary", "objective"}

guessNameFromText(ls) ==
    LET ok == {i \in 1..Min(5, Len(ls)) :
                 /\ ls[i] # ""
                 /\ ~TestPrefixWordI(ls[i], GuessSkipWords)
                 /\ WordCount(ls[i]) <= 6
                 /\ TestNameChars(ls[i])}
    IN IF ok = {} THEN "" ELSE trim(CollapseRuns(ls[MinOf(ok)]))

\* the value of a failed match (null) and of a missing array element
\* (undefined): strings outside the input alphabet
Null == "<null>"
Undefined == "<undefined>"

\* the first position of S, and Null for the empty set
FirstOr(S) == IF S = {} THEN 0 ELSE MinOf(S)

\* /[A-Z0-9._%+-]+@[A-Z0-9.-]+\.[A-Z]{2,}/im: the first match or Null.  From
\* a start i the local part runs up to the "@"; the domain is taken greedily,
\* so the dot is the last one of the domain run that two letters follow.
EmailLocal == LetterSet \cup DigitSet \cup {".", "_", "%", "+", "-"}
EmailDomain == LetterSet \cup DigitSet \cup {".", "-"}
EmailDots(s, i) ==
    LET a == RunEnd(s, i, EmailLocal)
        r == RunEnd(s, a + 2, EmailDomain)
    IN IF a >= i /\ MatchAt(s, a + 1, "@")
       THEN {p \in (a + 3)..r : /\ Ch(s, p) = "."
                                /\ p + 2 <= Len(s)
                                /\ Ch(s, p + 1) \in LetterSet
                                /\ Ch(s, p + 2) \in LetterSet}
       ELSE {}
MatchEmail(s) ==
    LET i == IF includes(s, "@") THEN FirstOr({k \in 1..Len(s) : EmailDots(s, k) # {}})
             ELSE 0
    IN IF i = 0 THEN Null
       ELSE LET ds == EmailDots(s, i)
                p == CHOOSE x \in ds : \A y \in ds : x >= y
            IN SubSeq(s, i, RunEnd(s, p + 1, LetterSet))

\* /(\+?\d[\d\s\-().]{7,}\d)/m: the first match or Null
PhoneChars == DigitSet \cup SpaceSet \cup {"-", "(", ")", "."}
PhoneEnds(s, d) ==
    IF d >= 1 /\ d <= Len(s) /\ Ch(s, d) \in DigitSet
    THEN {e \in (d + 8)..RunEnd(s, d + 1, PhoneChars) : Ch(s, e) \in DigitSet}
    ELSE {}
MatchPhone(s) ==
    LET i == FirstOr({k \in 1..Len(s) :
                        \/ PhoneEnds(s, k) # {}
                        \/ Ch(s, k) = "+" /\ PhoneEnds(s, k + 1) # {}})
    IN IF i = 0 THEN Null
       ELSE LET es == IF Ch(s, i) = "+" THEN PhoneEnds(s, i + 1) ELSE PhoneEnds(s, i)
            IN SubSeq(s, i, CHOOSE x \in es : \A y \in es : x >= y)

\* [A-Z][a-zA-Z]+ at i: the end of the word, 0 when there is none
CapWordEnd(s, i) ==
    IF i >= 1 /\ i <= Len(s) /\ Ch(s, i) \in UpperSet /\ RunEnd(s, i + 1, LetterSet) > i
    THEN RunEnd(s, i + 1, LetterSet) ELSE 0

\* the ends of the successive groups (?:,\s*[A-Z][a-zA-Z]+) after a word
\* that ends at e
RECURSIVE GroupEnds(_, _)
GroupEnds(s, e) ==
    IF MatchAt(s, e + 1, ",")
    THEN LET w == CapWordEnd(s, RunEnd(s, e + 2, SpaceSet) + 1)
         IN IF w = 0 THEN {} ELSE {w} \cup GroupEnds(s, w)
    ELSE {}

\* /\b([A-Z][a-zA-Z]+(?:,\s*[A-Z][a-zA-Z]+)+)\b/: the ends a match that
\* starts at i can have
LocationEnds(s, i) ==
    IF BoundaryAt(s, i) /\ CapWordEnd(s, i) # 0
    THEN {e \in GroupEnds(s, CapWordEnd(s, i)) : ~IsWordAt(s, e + 1)}
    ELSE {}
MatchLocation(s) ==
    LET i == FirstOr({k \in 1..Len(s) : LocationEnds(s, k) # {}})
    IN IF i = 0 THEN Null
       ELSE LET es == LocationEnds(s, i)
            IN SubSeq(s, i, CHOOSE x \in es : \A y \in es : x >= y)

\* the five scans of lines 85-91, concatenated in the order of the source
LinkMatches(blob) ==
    MatchAll(blob, HttpPrefixes, FALSE, FALSE)
    \o MatchAll(blob, {"www."}, FALSE, TRUE)
    \o MatchAll(blob, {"github.com/"}, TRUE, TRUE)
    \o MatchAll(blob, {"linkedin.com/"}, TRUE, TRUE)
    \o MatchAll(blob, {"portfolio."}, TRUE, TRUE)

\* ------------------------------------------------------------------------
\* parseResumeText (pdfParser.js)
\* ------------------------------------------------------------------------

\* longest first line taken as no name, fewest words taken as no name (line 79)
NameMinLen == 2
NameMaxWords == 6
\* a second line of this length or longer is no title (line 102)
TitleMaxLen == 80

\* a faulty variant of NormalizeLines: without the map(trim)
NormalizeUntrimmed(text) == FilterNonEmpty(split(text, {"\n"}))
\* text.split('\n').map((l) => l.trim()).filter(Boolean)
NormalizeLines(text) == TrimAll(split(text, {"\n"}))

\* xs[i] with the 0-based i of the source: Undefined past the end
At(xs, i) == IF i + 1 <= Len(xs) THEN xs[i + 1] ELSE Undefined

\* a faulty variant of OrEmpty: v, without the || ''
OrEmptyUnguarded(v) == v
\* v || ''
OrEmpty(v) == IF v = Undefined \/ v = Null THEN "" ELSE v

\* m ? m[0] : ''
MatchOrEmpty(m) == IF m = Null THEN "" ELSE m

\* whether line 79 reads a property of undefined (a TypeError)
NameThrows(ls) == OrEmpty(At(ls, 0)) = Undefined

\* line 79
ProbableName(ls) ==
    LET first == OrEmpty(At(ls, 0))
    IN IF Len(first) > NameMinLen /\ WordCount(first) <= NameMaxWords
       THEN At(ls, 0) ELSE guessNameFromText(ls)

TitleStopWords == {"email", "phone", "linkedin", "github", "summary", "objective",
                   "experience", "education", "projects"}

\* lines 101-104
TitleOf(ls) ==
    LET second == At(ls, 1)
    IN IF /\ second # Undefined
          /\ Len(second) < TitleMaxLen
          /\ ~TestAnyI(second, TitleStopWords)
       THEN second ELSE ""

\* lines 109-114, links being Array.from(new Set(matches))
ContactWith(blob, matches) ==
    [email |-> MatchOrEmpty(MatchEmail(blob)),
     phone |-> MatchOrEmpty(MatchPhone(blob)),
     location |-> MatchOrEmpty(MatchLocation(blob)),
     links |-> ArrayFromSet(matches)]
ContactOf(blob) == ContactWith(blob, LinkMatches(blob))

\* the record parseResumeText returns when it returns
parseResumeText(text) ==
    LET ls == NormalizeLines(text)
        blob == join(ls, "\n")
        probableName == ProbableName(ls)
    IN [name |-> OrEmpty(probableName),
        title |-> TitleOf(ls),
        contact |-> ContactOf(blob),
        summary |-> extractSummary(blob, probableName),
        skills |-> extractSkills(blob),
        education |-> extractEducation(blob),
        experience |-> extractExperience(blob),
        projects |-> extractProjects(blob)]

\* ------------------------------------------------------------------------
\* The parser as a state machine: one call of parseResumeText
\* ------------------------------------------------------------------------

\* one call of parseResumeText
VARIABLES
    text,          \* the argument of parseResumeText
    pc,            \* where the call is: start, normalized, contact,
                   \* classified, summarized, done, or threw
    lines,         \* const lines
    blob,          \* const blob
    probableName,  \* const probableName
    contact,       \* the contact object of the return value
    skills, education, experience, projects, summary, title,
    result,        \* <<>> until the call returns, then <<the record>>
    hist           \* history of the call, kept for the properties only

parseVars == <<text, pc, lines, blob, probableName, contact, skills, education,
               experience, projects, summary, title, result, hist>>

\* one call of extractResumeDataFromPdf
VARIABLES
    fileOrUrl,    \* the kind of the argument
    pdfPc,        \* idle, import, dispatch, buffer, load, getPage, getText,
                  \* parse, resolved or rejected
    numPages,     \* pdf.numPages once the document is loaded
    pageNum,
    fullText,
    parsed,       \* <<>> or <<the record the call resolves to>>
    pdfHist       \* history: the pages read, the failure met, the text the
                  \* parser was called with

pdfVars == <<fileOrUrl, pdfPc, numPages, pageNum, fullText, parsed, pdfHist>>

\* the state of the App component
VARIABLES
    loading,    \* useState(false)
    error,      \* useState('')
    resume,     \* useState(null): -1 for null, else the attempt whose data it is
    attempts,   \* the status of every attempt: none, pending, ok or failed;
                \* attempt 0 is loadInitial, attempt k the k-th upload
    started     \* how many attempts have been started

appVars == <<loading, error, resume, attempts, started>>

vars == <<parseVars, pdfVars, appVars>>

\* the lines of a section: start .. end - 1 of findSection, as indices of lines
SectionRange(ls, hdr) ==
    LET start == SectionStart(ls, hdr)
    IN IF start = 0 THEN {} ELSE start..(SectionEnd(ls, start) - 1)

\* The lines of its section a classifier takes text from: every line but the
\* header lines it skips.
SkillsUsed(ls) == {i \in SectionRange(ls, SkillsHeader) : ~TestWholeI(ls[i], SkillsHeader)}
EducationUsed(ls) ==
    {i \in SectionRange(ls, EducationHeader) :
        ~(startsWith(toLowerCase(ls[i]), "education")
          \/ startsWith(toLowerCase(ls[i]), "academics"))}
ExperienceUsed(ls) ==
    {i \in SectionRange(ls, ExperienceHeader) : ~TestWholeI(ls[i], ExperienceHeader)}
ProjectsUsed(ls) ==
    {i \in SectionRange(ls, ProjectsHeader) : ~TestWholeI(ls[i], ProjectsHeader)}
\* the summary is the first three lines left once the header word is removed
SummaryUsed(ls) ==
    LET r == SectionRange(ls, SummaryHeader)
        start == SectionStart(ls, SummaryHeader)
        first == IF trim(StripSummaryHeader(ls[start])) = "" THEN start + 1 ELSE start
    IN IF r = {} THEN {} ELSE {i \in r : i >= first /\ i <= first + 2}

NoHist ==
    [linksSeen |-> <<>>, skillsSeen |-> <<>>, expLines |-> <<>>, expTrace |-> <<>>,
     projTrace |-> <<>>,
     section |-> [k \in {"skills", "education", "experience", "projects", "summary"} |-> ""],
     range |-> [k \in {"skills", "education", "experience", "projects", "summary"} |-> {}],
     used |-> [k \in {"skills", "education", "experience", "projects", "summary"} |-> {}]]

ParseInit(inputs, at) ==
    /\ text \in inputs
    /\ pc = at
    /\ lines = <<>>
    /\ blob = ""
    /\ probableName = ""
    /\ contact = [email |-> "", phone |-> "", location |-> "", links |-> <<>>]
    /\ skills = <<>>
    /\ education = <<>>
    /\ experience = <<>>
    /\ projects = <<>>
    /\ summary = ""
    /\ title = ""
    /\ result = <<>>
    /\ hist = NoHist

\* lines 70-76
Normalize ==
    /\ pc = "start"
    /\ lines' = NormalizeLines(text)
    /\ blob' = join(lines', "\n")
    /\ pc' = "normalized"
    /\ UNCHANGED <<text, probableName, contact, skills, education, experience,
                   projects, summary, title, result, hist>>
    /\ UNCHANGED <<pdfVars, appVars>>

\* lines 79-91; reading a property of undefined ends the call with a TypeError
ScanContact ==
    /\ pc = "normalized"
    /\ IF NameThrows(lines)
       THEN /\ pc' = "threw"
            /\ UNCHANGED <<probableName, contact, hist>>
       ELSE /\ pc' = "contact"
            /\ probableName' = ProbableName(lines)
            /\ LET matches == LinkMatches(blob)
               IN /\ contact' = ContactWith(blob, matches)
                  /\ hist' = [hist EXCEPT !.linksSeen = matches]
    /\ UNCHANGED <<text, lines, blob, skills, education, experience, projects,
                   summary, title, result>>
    /\ UNCHANGED <<pdfVars, appVars>>

\* lines 93-96
Classify ==
    /\ pc = "contact"
    /\ education' = extractEducation(blob)
    /\ LET seen == SkillsExpanded(blob)
           et == ExperienceTrace(blob)
           pt == ProjectsTrace(blob)
       IN
       /\ skills' = ArrayFromSet(seen)
       /\ experience' = ExperienceEntries(et)
       /\ projects' = ProjectEntries(pt)
       /\ hist' = [hist EXCEPT
            !.skillsSeen = seen,
            !.expLines = ExperienceLines(blob),
            !.expTrace = et,
            !.projTrace = pt,
            !.section = [@ EXCEPT !.skills = findSection(blob, SkillsHeader),
                                  !.education = findSection(blob, EducationHeader),
                                  !.experience = findSection(blob, ExperienceHeader),
                                  !.projects = findSection(blob, ProjectsHeader)],
            !.range = [@ EXCEPT !.skills = SectionRange(lines, SkillsHeader),
                                !.education = SectionRange(lines, EducationHeader),
                                !.experience = SectionRange(lines, ExperienceHeader),
                                !.projects = SectionRange(lines, ProjectsHeader)],
            !.used = [@ EXCEPT !.skills = SkillsUsed(lines),
                               !.education = EducationUsed(lines),
                               !.experience = ExperienceUsed(lines),
                               !.projects = ProjectsUsed(lines)]]
    /\ pc' = "classified"
    /\ UNCHANGED <<text, lines, blob, probableName, contact, summary, title, result>>
    /\ UNCHANGED <<pdfVars, appVars>>

\* line 98
Summarize ==
    /\ pc = "classified"
    /\ summary' = extractSummary(blob, probableName)
    /\ hist' = [hist EXCEPT !.section.summary = findSection(blob, SummaryHeader),
                            !.range.summary = SectionRange(lines, SummaryHeader),
                            !.used.summary = SummaryUsed(lines)]
    /\ pc' = "summarized"
    /\ UNCHANGED <<text, lines, blob, probableName, contact, skills, education,
                   experience, projects, title, result>>
    /\ UNCHANGED <<pdfVars, appVars>>

\* lines 101-120
Assemble ==
    /\ pc = "summarized"
    /\ title' = TitleOf(lines)
    /\ result' = <<[name |-> OrEmpty(probableName),
                    title |-> title',
                    contact |-> contact,
                    summary |-> summary,
                    skills |-> skills,
                    education |-> education,
                    experience |-> experience,
                    projects |-> projects]>>
    /\ pc' = "done"
    /\ UNCHANGED <<text, lines, blob, probableName, contact, skills, education,
                   experience, projects, summary, hist>>
    /\ UNCHANGED <<pdfVars, appVars>>

\* ------------------------------------------------------------------------
\* extractResumeDataFromPdf (pdfParser.js): one call, awaits as steps
\* ------------------------------------------------------------------------

\* Most pages a document of the model has.
MaxPdfPages == 11

\* Math.min(pdf.numPages, 10) (line 42)
PageCap == 10

InputKinds == {"string", "File", "Blob", "other"}

\* textContent.items of a page: the strings of the document of the model
PageItems(n) ==
    IF n = 1 THEN <<"Jane Doe", "Skills">>
    ELSE <<"Lang" \o Ch(DigitChars, (n % 10) + 1)>>

\* a faulty variant of MaxPagesOf: every page, without the cap
UncappedPages(n) == n
\* line 42: maxPages
MaxPagesOf(n) == Min(n, PageCap)

PdfInit(kinds, at) ==
    /\ fileOrUrl \in kinds
    /\ pdfPc = at
    /\ numPages = 0
    /\ pageNum = 0
    /\ fullText = ""
    /\ parsed = <<>>
    /\ pdfHist = [pagesRead |-> <<>>, failure |-> "none", parserInput |-> <<>>]

\* a rejected await or a throw: the call rejects, nothing catches it
PdfReject(why) ==
    /\ pdfPc' = "rejected"
    /\ pdfHist' = [pdfHist EXCEPT !.failure = why]
    /\ UNCHANGED <<fileOrUrl, numPages, pageNum, fullText, parsed>>

\* line 25: await getPdfJs()
PdfImport ==
    /\ pdfPc = "import"
    /\ \E ok \in BOOLEAN :
         IF ok THEN /\ pdfPc' = "dispatch"
                    /\ UNCHANGED <<fileOrUrl, numPages, pageNum, fullText, parsed, pdfHist>>
         ELSE PdfReject("import")
    /\ UNCHANGED <<parseVars, appVars>>

\* lines 28-39
PdfDispatch ==
    /\ pdfPc = "dispatch"
    /\ IF fileOrUrl = "string"
       THEN /\ pdfPc' = "load"
            /\ UNCHANGED <<fileOrUrl, numPages, pageNum, fullText, parsed, pdfHist>>
       ELSE IF fileOrUrl \in {"File", "Blob"}
       THEN /\ pdfPc' = "buffer"
            /\ UNCHANGED <<fileOrUrl, numPages, pageNum, fullText, parsed, pdfHist>>
       ELSE PdfReject("unsupported")
    /\ UNCHANGED <<parseVars, appVars>>

\* lines 31 and 35: await fileOrUrl.arrayBuffer()
PdfBuffer ==
    /\ pdfPc = "buffer"
    /\ \E ok \in BOOLEAN :
         IF ok THEN /\ pdfPc' = "load"
                    /\ UNCHANGED <<fileOrUrl, numPages, pageNum, fullText, parsed, pdfHist>>
         ELSE PdfReject("buffer")
    /\ UNCHANGED <<parseVars, appVars>>

\* lines 41-45: await loadingTask.promise, then the loop is entered
PdfLoad ==
    /\ pdfPc = "load"
    /\ \/ \E n \in 0..MaxPdfPages :
            /\ numPages' = n
            /\ pageNum' = 1
            /\ fullText' = ""
            /\ pdfPc' = IF 1 <= MaxPagesOf(n) THEN "getPage" ELSE "parse"
            /\ UNCHANGED <<fileOrUrl, parsed, pdfHist>>
       \/ PdfReject("load")
    /\ UNCHANGED <<parseVars, appVars>>

\* line 46: await pdf.getPage(pageNum)
PdfGetPage ==
    /\ pdfPc = "getPage"
    /\ \E ok \in BOOLEAN :
         IF ok THEN /\ pdfPc' = "getText"
                    /\ UNCHANGED <<fileOrUrl, numPages, pageNum, fullText, parsed, pdfHist>>
         ELSE PdfReject("getPage")
    /\ UNCHANGED <<parseVars, appVars>>

\* lines 47-49 and the loop's step: await page.getTextContent()
PdfGetText ==
    /\ pdfPc = "getText"
    /\ \E ok \in BOOLEAN :
         IF ok THEN /\ fullText' = fullText \o "\n" \o join(PageItems(pageNum), "\n")
                    /\ pdfHist' = [pdfHist EXCEPT !.pagesRead = Append(@, pageNum)]
                    /\ pageNum' = pageNum + 1
                    /\ pdfPc' = IF pageNum + 1 <= MaxPagesOf(numPages) THEN "getPage"
                                ELSE "parse"
                    /\ UNCHANGED <<fileOrUrl, numPages, parsed>>
         ELSE PdfReject("getText")
    /\ UNCHANGED <<parseVars, appVars>>

\* lines 52-53
PdfParse ==
    /\ pdfPc = "parse"
    /\ parsed' = <<parseResumeText(fullText)>>
    /\ pdfHist' = [pdfHist EXCEPT !.parserInput = <<fullText>>]
    /\ pdfPc' = "resolved"
    /\ UNCHANGED <<fileOrUrl, numPages, pageNum, fullText>>
    /\ UNCHANGED <<parseVars, appVars>>

\* ------------------------------------------------------------------------
\* App (App.js): the parse attempts of the component
\* ------------------------------------------------------------------------

\* Most uploads of one run of the model.
MaxUploads == 3

InitialError == "Unable to parse initial resume. You can upload a PDF to proceed."
UploadError == "Failed to parse PDF. Please try another file."

AppInit ==
    /\ loading = FALSE
    /\ error = ""
    /\ resume = -1
    /\ attempts = [k \in 0..MaxUploads |-> "none"]
    /\ started = 0

\* the message of a failed attempt (lines 37 and 61)
ErrorMessage(k) == IF k = 0 THEN InitialError ELSE UploadError

\* a faulty variant of ErrorAfter: a success clears the message
ErrorClearedOnSuccess(k, ok, err) == IF ok THEN "" ELSE ErrorMessage(k)
\* the error state once the await of attempt k has settled: the catch block
\* sets the message, a success leaves the state as it is
ErrorAfter(k, ok, err) == IF ok THEN err ELSE ErrorMessage(k)

\* lines 26-33 and 42: the effect runs loadInitial up to its await
loadInitial ==
    /\ started = 0
    /\ loading' = TRUE
    /\ error' = ""
    /\ attempts' = [attempts EXCEPT ![0] = "pending"]
    /\ started' = 1
    /\ UNCHANGED resume
    /\ UNCHANGED <<parseVars, pdfVars>>

\* lines 51-57: onFileChange up to its await; without a file it returns
onFileChange ==
    /\ started >= 1
    /\ \E hasFile \in BOOLEAN :
         IF hasFile
         THEN /\ started <= MaxUploads
              /\ loading' = TRUE
              /\ error' = ""
              /\ attempts' = [attempts EXCEPT ![started] = "pending"]
              /\ started' = started + 1
              /\ UNCHANGED resume
         ELSE UNCHANGED appVars
    /\ UNCHANGED <<parseVars, pdfVars>>

\* lines 33-40 and 57-64: the await of attempt k settles and the rest of the
\* handler runs: setResume or the catch block, then the finally block
Settle ==
    \E k \in 0..MaxUploads, ok \in BOOLEAN :
       /\ attempts[k] = "pending"
       /\ resume' = IF ok THEN k ELSE resume
       /\ error' = ErrorAfter(k, ok, error)
       /\ loading' = FALSE
       /\ attempts' = [attempts EXCEPT ![k] = IF ok THEN "ok" ELSE "failed"]
       /\ UNCHANGED started
       /\ UNCHANGED <<parseVars, pdfVars>>

\* ------------------------------------------------------------------------
\* Inputs and specifications
\* ------------------------------------------------------------------------

\* the sequences of at most n elements of S
SeqsUpTo(S, n) == UNION {[1..k -> S] : k \in 0..n}

\* documents: a header line and at most MaxLines lines of a pool, or at most
\* MaxLines lines of a pool with no header
WithHeader(header, pool) ==
    {join(<<header>> \o body, "\n") : body \in SeqsUpTo(pool, MaxLines)}
Free(pool) == {join(body, "\n") : body \in SeqsUpTo(pool, MaxLines)}

SkillsPool == {"Go, Rust, Python", "Languages: JavaScript, TypeScript",
               "go; Go * rust", "C++,, data   science"}
EduPool == {"B.Tech Computer Science", "XYZ University", "2018 - 2022", "Dean's list"}
ExpPool == {"Engineer at Acme", "- built the api", "* fixed bugs", "2020 - Present"}
ProjPool == {"- Shop", "Tech: go, Go; vue", "Stack: Vue; Go", "https://a.io/x demo"}
ContactPool == {"Jane Doe", "jane@x.com", "http://a.io http://a.io www.jd.io",
                "I build things."}
MixedPool == {"Experience", "Taught education basics", "Education", "Soft skills matter."}
RawPool == {"", "  ", " \t", " Jane Doe \r"}
\* header lines, a line that holds a header word without being header-like,
\* and a header-like line in upper case
BoundaryPool == {"Skills", "Skillset: Go", "AWARDS 2020", "Go, Rust"}
\* an education header that holds a degree, and lines with and without one
DegreePool == {"Education: B.Tech CS", "Master of Arts", "XYZ University", "Dean's list"}

\* Scenario 1 of the specification
Scenario1 ==
    "Jane Doe\nSoftware Engineer\njane@x.com\nSkills\nGo, Rust, Python\n"
    \o "Education\nB.Tech Computer Science\nXYZ University\n2018 - 2022"

\* a document with repeated skills, repeated technologies and a repeated link
RepeatsDoc ==
    "Skills\ngo, Go; rust\nProjects\n- Shop\nTech: vue, Vue; go\nStack: Go\n"
    \o "http://a.io http://a.io"

\* an experience section of three entries: the first opened by a bullet, the
\* second with a period line between its heading and its bullets
RolesDoc ==
    "Experience\n- kickoff\nEngineer at Acme\n2020 to Present\n- built the api\n"
    \o "* fixed bugs\nAcme ~ Developer\n- shipped"

Inputs ==
    {Scenario1, RepeatsDoc, RolesDoc}
    \cup WithHeader("Skills", SkillsPool)
    \cup WithHeader("Education", EduPool)
    \cup WithHeader("Experience", ExpPool)
    \cup WithHeader("Projects", ProjPool)
    \cup Free(ContactPool)
    \cup Free(MixedPool)
    \cup Free(RawPool)
    \cup Free(BoundaryPool)
    \cup Free(DegreePool)

\* a component that takes no step in a specification
ParseIdle == ParseInit({""}, "idle")
PdfIdle == PdfInit({"string"}, "idle")

\* parseResumeText on every input
Init == ParseInit(Inputs, "start") /\ PdfIdle /\ AppInit
Next == Normalize \/ ScanContact \/ Classify \/ Summarize \/ Assemble
Spec == Init /\ [][Next]_vars

\* extractResumeDataFromPdf on every kind of argument and document length
PdfStart == ParseIdle /\ PdfInit(InputKinds, "import") /\ AppInit
PdfNext == PdfImport \/ PdfDispatch \/ PdfBuffer \/ PdfLoad \/ PdfGetPage
           \/ PdfGetText \/ PdfParse
PdfSpec == PdfStart /\ [][PdfNext]_vars

\* the component: the initial load and the uploads, settling in any order
AppStart == ParseIdle /\ PdfIdle /\ AppInit
AppNext == loadInitial \/ onFileChange \/ Settle
AppSpec == AppStart /\ [][AppNext]_vars

\* ------------------------------------------------------------------------
\* Properties
\* ------------------------------------------------------------------------

IsSeqOf(xs, P(_)) == DOMAIN xs = 1..Len(xs) /\ \A i \in 1..Len(xs) : P(xs[i])
IsStr(x) == x \in STRING
IsEducationEntry(e) ==
    /\ DOMAIN e = {"degree", "institution", "period", "details"}
    /\ \A f \in DOMAIN e : IsStr(e[f])
IsExperienceEntry(e) ==
    /\ DOMAIN e = {"company", "role", "period", "bullets"}
    /\ IsStr(e.company) /\ IsStr(e.role) /\ IsStr(e.period)
    /\ IsSeqOf(e.bullets, IsStr)
IsProjectEntry(e) ==
    /\ DOMAIN e = {"name", "description", "tech", "link"}
    /\ IsStr(e.name) /\ IsStr(e.description) /\ IsStr(e.link)
    /\ IsSeqOf(e.tech, IsStr)
IsResumeRecord(r) ==
    /\ DOMAIN r = {"name", "title", "contact", "summary", "skills", "education",
                   "experience", "projects"}
    /\ IsStr(r.name) /\ IsStr(r.title) /\ IsStr(r.summary)
    /\ r.name # Undefined /\ r.name # Null
    /\ DOMAIN r.contact = {"email", "phone", "location", "links"}
    /\ IsStr(r.contact.email) /\ IsStr(r.contact.phone) /\ IsStr(r.contact.location)
    /\ IsSeqOf(r.contact.links, IsStr)
    /\ IsSeqOf(r.skills, IsStr)
    /\ IsSeqOf(r.education, IsEducationEntry)
    /\ IsSeqOf(r.experience, IsExperienceEntry)
    /\ IsSeqOf(r.projects, IsProjectEntry)

Returned == pc = "done" /\ Len(result) = 1

\* C1: for every input string the call of parseResumeText never throws: it
\* is at one of the steps that lead to its return statement, and what it
\* returns is a record with the fields name, title, contact{email, phone,
\* location, links}, summary, skills, education, experience and projects.
C1_Totality ==
    /\ IsStr(text)
    /\ pc \in {"start", "normalized", "contact", "classified", "summarized", "done"}
    /\ pc = "done" => Len(result) = 1 /\ IsResumeRecord(result[1])

\* C1 witness: a call that returned a record with skills and education
C1_Witness ==
    Returned /\ result[1].skills # <<>> /\ result[1].education # <<>>

Classifiers == {"skills", "education", "experience", "projects", "summary"}

\* C2: every line a classifier takes text from lies in the range of its own
\* section, and in the range of no other classifier's section.
C2_SectionIsolation ==
    pc = "done" =>
        \A k \in Classifiers :
            /\ hist.used[k] \subseteq hist.range[k]
            /\ \A j \in Classifiers \ {k} : hist.used[k] \cap hist.range[j] = {}

NoRepeat(xs) == \A i, j \in 1..Len(xs) : xs[i] = xs[j] => i = j
FirstAt(xs, x) == MinOf({i \in 1..Len(xs) : xs[i] = x})
\* out holds the elements of seen, each once, in the order of first occurrence
FirstOccurrences(out, seen) ==
    /\ NoRepeat(out)
    /\ {out[i] : i \in 1..Len(out)} = {seen[i] : i \in 1..Len(seen)}
    /\ \A i, j \in 1..Len(out) : i < j => FirstAt(seen, out[i]) < FirstAt(seen, out[j])

\* C3: the returned skills, the tech list of every project and contact.links
\* hold no element twice, and hold the elements found in the order of their
\* first occurrence.
C3_Deduplication ==
    pc = "done" =>
        /\ FirstOccurrences(result[1].skills, hist.skillsSeen)
        /\ FirstOccurrences(result[1].contact.links, hist.linksSeen)
        /\ Len(result[1].projects) = Len(hist.projTrace)
        /\ \A i \in 1..Len(result[1].projects) :
              FirstOccurrences(result[1].projects[i].tech, hist.projTrace[i].techSeen)

\* C3 witness: a returned record for which a skill, a link and a technology
\* were each found more than once
C3_Witness ==
    /\ Returned
    /\ Len(hist.skillsSeen) > Len(result[1].skills)
    /\ Len(hist.linksSeen) > Len(result[1].contact.links)
    /\ \E i \in 1..Len(hist.projTrace) :
          Len(hist.projTrace[i].techSeen) > Len(result[1].projects[i].tech)

\* the bullets of the i-th returned entry come, in order, from the lines
\* bulletAt names, each after (strictly or not) the line that opened the
\* entry and before the line that opened the next one
BulletsInOrder(i, strict) ==
    LET e == hist.expTrace[i]
        out == result[1].experience[i].bullets
    IN /\ Len(out) = Len(e.bulletAt)
       /\ \A k \in 1..Len(out) :
             /\ e.bulletAt[k] \in 1..Len(hist.expLines)
             /\ out[k] = StripMarker(hist.expLines[e.bulletAt[k]])
             /\ IF strict THEN e.openedAt < e.bulletAt[k] ELSE e.openedAt <= e.bulletAt[k]
             /\ i < Len(hist.expTrace) => e.bulletAt[k] < hist.expTrace[i + 1].openedAt
       /\ \A k, m \in 1..Len(out) : k < m => e.bulletAt[k] < e.bulletAt[m]

\* C4 as stated: the bullets of every experience entry are in the order of
\* their source lines, and each comes from a line after the line that opened
\* the entry and before the line that opened the next entry.
C4_BulletsAfterOpening ==
    pc = "done" =>
        /\ Len(result[1].experience) = Len(hist.expTrace)
        /\ \A i \in 1..Len(hist.expTrace) : BulletsInOrder(i, TRUE)

\* C4 as amended: the same, but a bullet may come from the very line that
\* opened its entry (a bullet line met while no entry is open opens one).
C4_BulletsInOrder ==
    pc = "done" =>
        /\ Len(result[1].experience) = Len(hist.expTrace)
        /\ \A i \in 1..Len(hist.expTrace) : BulletsInOrder(i, FALSE)

\* C4 witness: three returned entries, the first opened by its own bullet,
\* the second with two bullets from lines after its heading
C4_Witness ==
    /\ Returned
    /\ Len(hist.expTrace) >= 3
    /\ hist.expTrace[1].bulletAt = <<hist.expTrace[1].openedAt>>
    /\ Len(result[1].experience[2].bullets) = 2
    /\ result[1].experience[2].bullets[1] # result[1].experience[2].bullets[2]

IsBlank(s) == \A i \in 1..Len(s) : Ch(s, i) \in SpaceSet

EmptyRecord ==
    [name |-> "", title |-> "",
     contact |-> [email |-> "", phone |-> "", location |-> "", links |-> <<>>],
     summary |-> "", skills |-> <<>>, education |-> <<>>, experience |-> <<>>,
     projects |-> <<>>]

\* C5: for the empty string and for every input of white space only, every
\* field of the returned record is at its empty default.
C5_BlankInput ==
    pc = "done" /\ IsBlank(text) => result = <<EmptyRecord>>

\* C5 witness: a returned call whose input was several lines of white space
C5_Witness ==
    Returned /\ IsBlank(text) /\ Len(split(text, {"\n"})) >= 2 /\ Len(text) >= 3

\* C6: for the nine lines of scenario 1 the parser returns the name, title,
\* e-mail address, skills and the one education entry of the scenario.
C6_Scenario1 ==
    pc = "done" /\ text = Scenario1 =>
        /\ result[1].name = "Jane Doe"
        /\ result[1].title = "Software Engineer"
        /\ result[1].contact.email = "jane@x.com"
        /\ result[1].skills = <<"Go", "Rust", "Python">>
        /\ result[1].education =
              <<[degree |-> "B.Tech Computer Science", institution |-> "XYZ University",
                 period |-> "2018 - 2022", details |-> ""]>>

\* C6 witness: the call on scenario 1 returned
C6_Witness == Returned /\ text = Scenario1

\* no line holds a word of any section header pattern
NoHeaders(ls) ==
    \A i \in 1..Len(ls) :
        ~TestAnyI(ls[i], SkillsHeader \cup EducationHeader \cup ExperienceHeader
                         \cup ProjectsHeader \cup SummaryHeader)

NoSections(r) ==
    r.skills = <<>> /\ r.education = <<>> /\ r.experience = <<>> /\ r.projects = <<>>

\* C7 as stated: for an input without any section header the skills,
\* education, experience and projects are empty and the summary is "".
C7_NoHeadersAllEmpty ==
    pc = "done" /\ NoHeaders(lines) => NoSections(result[1]) /\ result[1].summary = ""

\* the lines ending in "." or "!" among the four that follow the first line
\* holding the name (the first line of all when none holds it)
SentencesAfterName ==
    LET hit == {i \in 1..Len(lines) : includes(lines[i], probableName)}
        at == IF hit = {} THEN 1 ELSE MinOf(hit)
    IN SelectSeq(SubSeq(lines, at + 1, Min(at + 4, Len(lines))), EndsSentence)

\* C7 as amended: for an input without any section header the skills,
\* education, experience and projects are empty, and the summary is the first
\* two of the sentence lines that follow the name, joined by a space: it is
\* "" only when there is no such line.
C7_NoHeadersFallback ==
    pc = "done" /\ NoHeaders(lines) =>
        /\ NoSections(result[1])
        /\ result[1].summary =
              join(SubSeq(SentencesAfterName, 1, Min(2, Len(SentencesAfterName))), " ")
        /\ result[1].summary = "" <=> SentencesAfterName = <<>>

\* C7 witness: a returned call on lines without any header whose summary is
\* not empty
C7_Witness ==
    Returned /\ NoHeaders(lines) /\ Len(lines) >= 2 /\ result[1].summary # ""

LanguagesLine == "Languages: JavaScript, TypeScript"

\* the skills section is its header and the one line of scenario 3
OnlyLanguagesLine ==
    /\ Cardinality(hist.used.skills) = 1
    /\ \A i \in hist.used.skills : lines[i] = LanguagesLine

\* C8 as stated: the label is discarded and the items are title-cased, so the
\* skills are "Javascript" and "Typescript".
C8_TitleCased ==
    pc = "done" /\ OnlyLanguagesLine => result[1].skills = <<"Javascript", "Typescript">>

\* the skills section holds the line of scenario 3, among others or alone
HasLanguagesLine == \E i \in hist.used.skills : lines[i] = LanguagesLine

\* C8 as amended: the label is discarded and the first letter of every word
\* of an item is upper-cased, the other letters staying as they are, so the
\* skills are "JavaScript" and "TypeScript": exactly these when the section
\* holds that line only, and these among the others, none of which holds the
\* label, when it holds more lines.
C8_LabelDiscarded ==
    /\ pc = "done" /\ OnlyLanguagesLine =>
          result[1].skills = <<"JavaScript", "TypeScript">>
    /\ pc = "done" /\ HasLanguagesLine =>
          /\ \E i, j \in 1..Len(result[1].skills) :
                i < j /\ result[1].skills[i] = "JavaScript"
                      /\ result[1].skills[j] = "TypeScript"
          /\ \A i \in 1..Len(result[1].skills) :
                ~includes(result[1].skills[i], "Languages")

\* C8 witness: a returned call whose skills section is that line
C8_Witness == Returned /\ OnlyLanguagesLine

\* C9: the parser is called only once pages 1..min(numPages, 10) have all
\* been read, in ascending order and without a failure; a failure of the
\* import, the argument, the load, a page or its text rejects the call, and
\* the parser is not called in a call that rejects.
C9_FailureBeforeParser ==
    LET upTo == IF numPages < 10 THEN numPages ELSE 10
    IN /\ pdfHist.pagesRead = [i \in 1..Len(pdfHist.pagesRead) |-> i]
       /\ pdfHist.parserInput # <<>> =>
             /\ pdfHist.failure = "none"
             /\ pdfHist.pagesRead = [i \in 1..upTo |-> i]
       /\ pdfHist.failure # "none" =>
             pdfPc = "rejected" /\ pdfHist.parserInput = <<>> /\ parsed = <<>>
       /\ pdfPc = "rejected" => pdfHist.failure # "none"
       /\ pdfPc = "resolved" => pdfHist.parserInput # <<>> /\ Len(parsed) = 1

\* C9 witness: a call on a document of more than ten pages that resolved
C9_Witness ==
    pdfPc = "resolved" /\ numPages > PageCap /\ Len(pdfHist.pagesRead) = PageCap

\* C10: when the handler of a failed attempt has completed the error state
\* is a message, and it stays one until another attempt is started.
C10_ErrorShown ==
    [][/\ (\E k \in 0..MaxUploads : attempts[k] = "pending" /\ attempts'[k] = "failed")
          => error' # ""
       /\ (error # "" /\ started' = started) => error' # ""]_vars

\* C10 witness: an attempt failed, a later one succeeded, the message stays
C10_Witness ==
    /\ error # ""
    /\ \E k, j \in 0..MaxUploads : attempts[k] = "failed" /\ attempts[j] = "ok" /\ resume = j

HeaderOf(k) ==
    CASE k = "skills" -> SkillsHeader
      [] k = "education" -> EducationHeader
      [] k = "experience" -> ExperienceHeader
      [] k = "projects" -> ProjectsHeader
      [] k = "summary" -> SummaryHeader

\* the line holds one of the words of the header pattern, in any case
HoldsHeader(l, k) == \E w \in HeaderOf(k) : includes(toLowerCase(l), w)
\* the line starts, in any case, with a recognized keyword
KeywordPrefix(l) == \E w \in BoundaryWords : startsWith(toLowerCase(l), w)
\* the same, the keyword ending where the line ends or a non-word character
\* follows
KeywordAtStart(l) ==
    \E w \in BoundaryWords :
        /\ startsWith(toLowerCase(l), w)
        /\ (Len(l) = Len(w) \/ Ch(l, Len(w) + 1) \notin WordSet)

\* the section of classifier k as the claim describes it, Bounds(_) telling
\* the lines that end a section
SectionAsClaimed(k, Bounds(_)) ==
    LET hits == {i \in 1..Len(lines) : HoldsHeader(lines[i], k)}
        first == MinOf(hits)
        ends == {j \in (first + 1)..Len(lines) : Bounds(lines[j])}
        last == IF ends = {} THEN Len(lines) ELSE MinOf(ends) - 1
    IN IF hits = {} THEN "" ELSE join(SubSeq(lines, first, last), "\n")

\* C11 as stated: findSection returns the lines from the first line matching
\* the header pattern up to, not including, the first later line that starts
\* with a recognized keyword, to the end of the document when there is none,
\* and "" when no line matches; a later match never moves the start.
C11_EndsAtKeywordPrefix ==
    pc = "done" =>
        \A k \in Classifiers : hist.section[k] = SectionAsClaimed(k, KeywordPrefix)

\* C11 as amended: the same, a line ending the section only when the keyword
\* it starts with ends at a word boundary (the end of the line or a character
\* that is no letter, digit or underscore follows it).
C11_EndsAtKeyword ==
    pc = "done" =>
        \A k \in Classifiers : hist.section[k] = SectionAsClaimed(k, KeywordAtStart)

\* C11 witness: a returned call with a section that a header-like line ends
\* before the end of the document, and that holds a later line matching the
\* header pattern and starting with a keyword no word boundary follows
C11_Witness ==
    /\ Returned
    /\ \E k \in Classifiers :
          /\ hist.section[k] # ""
          /\ \E i, j \in hist.range[k] :
                /\ i < j /\ j < Len(lines)
                /\ HoldsHeader(lines[i], k) /\ HoldsHeader(lines[j], k)
                /\ KeywordPrefix(lines[j]) /\ ~KeywordAtStart(lines[j])
                /\ KeywordAtStart(lines[j + 1]) /\ j + 1 \notin hist.range[k]

\* the entry that is current once the i-th line of the experience section
\* has been handled: the last one opened at or before that line (0 for none)
CurrentAt(i) ==
    LET opened == {n \in 1..Len(hist.expTrace) : hist.expTrace[n].openedAt <= i}
    IN IF opened = {} THEN 0
       ELSE CHOOSE n \in opened : \A m \in opened : m <= n

\* the i-th line of the experience section matches the year-range pattern
IsPeriodLine(i) == TestPeriod(hist.expLines[i], ExpPeriodGap)

\* the i-th line set the period of the entry then current, and the entry
\* returned holds it unless a later line of the entry set the period again
SetsPeriod(i) ==
    LET n == CurrentAt(i)
    IN /\ n > 0
       /\ \E k \in 1..Len(hist.expTrace[n].periodAt) : hist.expTrace[n].periodAt[k] = i
       /\ (\A j \in (i + 1)..Len(hist.expLines) : IsPeriodLine(j) => CurrentAt(j) # n)
             => result[1].experience[n].period = hist.expLines[i]

\* C12: every line of the experience section that matches the year-range
\* pattern sets the period of the current entry, opening an entry if none is
\* open.
C12_YearRangeSetsPeriod ==
    pc = "done" =>
        \A i \in 1..Len(hist.expLines) : IsPeriodLine(i) => SetsPeriod(i)

\* the lines of the education section that match the degree pattern
DegreeLines == {i \in hist.range.education : TestDegree(lines[i])}
\* the lines of the section that are neither header lines nor degree lines
PlainEduLines == {i \in hist.used.education : ~TestDegree(lines[i])}
\* 1 when a line that is neither precedes every degree line, else 0
LeadingEntry ==
    IF \E i \in PlainEduLines : \A d \in DegreeLines : i < d THEN 1 ELSE 0
\* the place of degree line d among the degree lines
DegreeRank(d) == Cardinality({e \in DegreeLines : e <= d})

\* C13: every line of the education section that matches the degree pattern
\* opens an entry whose degree is that line, so the returned entries are in
\* source order, none is lost, and their number is the number of degree lines,
\* plus one if a line that is neither a header nor a degree line precedes the
\* first degree line.
C13_EntryPerDegreeLine ==
    pc = "done" =>
        /\ Len(result[1].education) = Cardinality(DegreeLines) + LeadingEntry
        /\ \A d \in DegreeLines :
              /\ LeadingEntry + DegreeRank(d) <= Len(result[1].education)
              /\ result[1].education[LeadingEntry + DegreeRank(d)].degree = lines[d]

\* the line holds, in any case, one of the section-header keywords
HoldsHeaderKeyword(l) == \E w \in BoundaryWords : includes(toLowerCase(l), w)

\* C14: the returned title is the second normalized line exactly when that
\* line is shorter than 80 characters and matches no section-header keyword
\* (skills, experience, education, projects, summary, objective, about,
\* certifications, awards and their variants); it is "" in every other case.
C14_TitleIsSecondLine ==
    pc = "done" =>
        result[1].title =
            IF /\ Len(lines) >= 2
               /\ Len(lines[2]) < 80
               /\ ~HoldsHeaderKeyword(lines[2])
            THEN lines[2] ELSE ""

\* every attempt started has settled, and with success
AllSucceeded == \A k \in 0..(started - 1) : attempts[k] = "ok"

\* C15: when a file is uploaded while an earlier parse is in flight and the
\* parses succeed, then however their completions interleave, the resume
\* shown once all have completed is the result of the parse started last.
C15_LastStartedWins ==
    started >= 2 /\ AllSucceeded => resume = started - 1

====
